---- MODULE Spec2Model ----
(***************************************************************************)
(* Model of the tamper-evident audit log of cli-ceo-governance             *)
(* (class AuditLogger, src/src/vibe-integration/db-reader.ts:429-656).     *)
(*                                                                         *)
(* SHA-256 and HMAC-SHA-256 are modelled as ideal (collision-free)         *)
(* functions: a digest is the tagged term of its preimage, so two digests  *)
(* are equal exactly when algorithm, key and input are equal.              *)
(* JSON text is modelled by the JSON value it denotes; JSON.stringify is   *)
(* the conversion of a JavaScript value to that JSON value (it drops       *)
(* undefined members and turns NaN and Infinity into null).                *)
(***************************************************************************)
EXTENDS Integers, Sequences, FiniteSets, TLC

(* ---------------------------- bounds ----------------------------------- *)
\* Largest number of lines the log file holds in the model.
MaxLog == 3

\* Largest number of appendFileSync failures in one run.
MaxFail == 2

(* ------------------------ JavaScript values ---------------------------- *)
\* An absent optional member (undefined).
Undefined == "undefined"

\* the union type of AuditEvent.outcome
Outcomes == {"success", "failure", "denied"}

\* Outcomes of randomBytes(8)/Date.now() in generateEventId.
GenIds == {"audit_1", "audit_2"}

\* Outcomes of new Date().toISOString().
Clock == {"T1", "T2"}

\* Signing keys: the logger's key and a foreign key.
Keys == {"key-A", "key-B"}

\* Events callers pass to log(): the login and the two events of
\* exampleUsage (empty id and timestamp), and events with a caller-supplied
\* id and timestamp, one of them with a metadata value JSON cannot express.
InputEvents ==
  { [id |-> "", timestamp |-> "", eventType |-> "llm.request",
     userId |-> "user-001", resource |-> "claude-sonnet-4-5",
     action |-> "chat.completion", outcome |-> "success",
     metadata |-> [defined |-> TRUE, cost |-> "0.0245"]],
    [id |-> "evt-1", timestamp |-> "T0", eventType |-> "security.violation",
     userId |-> "user-002", resource |-> "prompt",
     action |-> "injection_attempt", outcome |-> "denied",
     metadata |-> [defined |-> TRUE, cost |-> "NaN"]],
    [id |-> "evt-2", timestamp |-> "T0", eventType |-> "user.login",
     userId |-> "user-001", resource |-> Undefined,
     action |-> Undefined, outcome |-> "success",
     metadata |-> [defined |-> FALSE, cost |-> Undefined]] }

(* ------------------------------ state ---------------------------------- *)
VARIABLES
  logExists,   \* existsSync(logPath)
  logFile,     \* the lines of the file at logPath, in file order
  signingKey,  \* AuditLogger.signingKey
  lastHash,    \* AuditLogger.lastHash
  result,      \* what the last call returned or threw
  failures,    \* number of appendFileSync calls that threw so far
  tamper,      \* what was done to the file behind the logger's back
  calls,       \* per task: how far its call of log() has got
  other,       \* the fields of a second AuditLogger instance of the process
  otherFile    \* the file at the second log path: existence and lines

vars == <<logExists, logFile, signingKey, lastHash, result, failures, tamper,
          calls, other, otherFile>>

(* --------------------------- pure functions ---------------------------- *)
\* createHash('sha256').update(data).digest('hex')
createHash(data) == <<"sha256", data>>

\* Mutant of createHmac: an unkeyed digest in place of the HMAC.
createHmacKeyless(key, data) == <<"hmac-sha256", data>>

\* createHmac('sha256', key).update(data).digest('hex')
createHmac(key, data) == <<"hmac-sha256", key, data>>

\* createHash('sha256').update('GENESIS').digest('hex')
GenesisHash == createHash(<<"GENESIS">>)

\* JSON.stringify of one metadata value.
StringifyValue(v) ==
  IF v \in {"NaN", "Infinity"} THEN "null" ELSE v

\* JSON.stringify of an AuditEvent.
StringifyEvent(event) ==
  [event EXCEPT !.metadata =
     IF @.defined THEN [defined |-> TRUE, cost |-> StringifyValue(@.cost)]
                  ELSE [defined |-> FALSE, cost |-> Undefined]]

\* Mutant of hashEntry: previousHash left out of the hashed data.
hashEntryEventOnly(entry) == createHash(<<StringifyEvent(entry.event)>>)

\* AuditLogger.hashEntry
hashEntry(entry) ==
  createHash(<<StringifyEvent(entry.event), entry.previousHash>>)

\* Mutant of signEntry: the key of the first construction signs for ever.
signEntryFirstKey(hash) == createHmac("key-A", hash)

\* AuditLogger.signEntry
signEntry(hash) == createHmac(signingKey, hash)

\* JSON.stringify(entry), the line appended to the file.
StringifyEntry(entry) ==
  [event |-> StringifyEvent(entry.event), previousHash |-> entry.previousHash,
   hash |-> entry.hash, signature |-> entry.signature]

\* readFileSync(logPath).trim().split('\n') followed by the empty-file test.
ReadLogs == IF logExists THEN logFile ELSE <<>>

\* JSON.parse accepts the line: it is the text of an entry object.
Decodable(line) == "event" \in DOMAIN line

\* A line that is not JSON text.
Garbage == [text |-> "not json"]

\* Mutant of ParseThrows: the empty-file test is missing, so JSON.parse('')
\* throws on a store without entries.
ParseThrowsOnEmpty ==
  \/ Len(ReadLogs) = 0
  \/ \E i \in 1 .. Len(ReadLogs) : ~Decodable(ReadLogs[i])

\* JSON.parse throws a SyntaxError on some line while verify(), query() or
\* exportLogs() decode the file.
ParseThrows == \E i \in 1 .. Len(ReadLogs) : ~Decodable(ReadLogs[i])

\* Mutant of getLastHash: the file is never read.
getLastHashGenesis == GenesisHash

\* AuditLogger.getLastHash
getLastHash ==
  IF ~logExists \/ Len(logFile) = 0 THEN GenesisHash
  ELSE logFile[Len(logFile)].hash

\* Mutant of CheckEntry: the hash is not recomputed.
CheckEntryNoHash(i, entry, expectedPreviousHash) ==
  (IF entry.previousHash # expectedPreviousHash
     THEN <<[index |-> i, id |-> entry.event.id, kind |-> "Chain broken"]>>
     ELSE <<>>)
  \o
  (IF entry.signature # signEntry(entry.hash)
     THEN <<[index |-> i, id |-> entry.event.id, kind |-> "Signature invalid"]>>
     ELSE <<>>)

\* Mutant of CheckEntry: previousHash is not compared.
CheckEntryNoChain(i, entry, expectedPreviousHash) ==
  (IF entry.hash # hashEntry(entry)
     THEN <<[index |-> i, id |-> entry.event.id, kind |-> "Hash mismatch"]>>
     ELSE <<>>)
  \o
  (IF entry.signature # signEntry(entry.hash)
     THEN <<[index |-> i, id |-> entry.event.id, kind |-> "Signature invalid"]>>
     ELSE <<>>)

\* Mutant of CheckEntry: the signature is not checked.
CheckEntryNoSignature(i, entry, expectedPreviousHash) ==
  (IF entry.previousHash # expectedPreviousHash
     THEN <<[index |-> i, id |-> entry.event.id, kind |-> "Chain broken"]>>
     ELSE <<>>)
  \o
  (IF entry.hash # hashEntry(entry)
     THEN <<[index |-> i, id |-> entry.event.id, kind |-> "Hash mismatch"]>>
     ELSE <<>>)

\* The three checks verify() makes on one decoded line: the messages it
\* pushes, in order, each reduced to entry index, event id and kind.
CheckEntry(i, entry, expectedPreviousHash) ==
  (IF entry.previousHash # expectedPreviousHash
     THEN <<[index |-> i, id |-> entry.event.id, kind |-> "Chain broken"]>>
     ELSE <<>>)
  \o
  (IF entry.hash # hashEntry(entry)
     THEN <<[index |-> i, id |-> entry.event.id, kind |-> "Hash mismatch"]>>
     ELSE <<>>)
  \o
  (IF entry.signature # signEntry(entry.hash)
     THEN <<[index |-> i, id |-> entry.event.id, kind |-> "Signature invalid"]>>
     ELSE <<>>)

\* Mutant of VerifyLoop: expectedPreviousHash is never advanced.
RECURSIVE VerifyLoopStale(_, _, _)
VerifyLoopStale(logs, i, expectedPreviousHash) ==
  IF i >= Len(logs) THEN <<>>
  ELSE CheckEntry(i, logs[i + 1], expectedPreviousHash)
       \o VerifyLoopStale(logs, i + 1, expectedPreviousHash)

\* Mutant of VerifyLoop: the recomputed hash, not the stored one, becomes
\* the next expectedPreviousHash.
RECURSIVE VerifyLoopRecomputed(_, _, _)
VerifyLoopRecomputed(logs, i, expectedPreviousHash) ==
  IF i >= Len(logs) THEN <<>>
  ELSE CheckEntry(i, logs[i + 1], expectedPreviousHash)
       \o VerifyLoopRecomputed(logs, i + 1, hashEntry(logs[i + 1]))

\* Mutant of VerifyLoop: the loop ends at the first entry with a discrepancy.
RECURSIVE VerifyLoopFirstOnly(_, _, _)
VerifyLoopFirstOnly(logs, i, expectedPreviousHash) ==
  IF i >= Len(logs) THEN <<>>
  ELSE IF CheckEntry(i, logs[i + 1], expectedPreviousHash) # <<>>
       THEN CheckEntry(i, logs[i + 1], expectedPreviousHash)
       ELSE VerifyLoopFirstOnly(logs, i + 1, logs[i + 1].hash)

\* Mutant of VerifyLoop: the chain breaks of all entries are reported
\* before the other discrepancies.
RECURSIVE VerifyLoopChainFirst(_, _, _)
VerifyLoopChainFirst(logs, i, expectedPreviousHash) ==
  IF i >= Len(logs) THEN <<>>
  ELSE SelectSeq(CheckEntry(i, logs[i + 1], expectedPreviousHash),
                 LAMBDA err : err.kind = "Chain broken")
       \o VerifyLoopChainFirst(logs, i + 1, logs[i + 1].hash)
       \o SelectSeq(CheckEntry(i, logs[i + 1], expectedPreviousHash),
                    LAMBDA err : err.kind # "Chain broken")

\* The loop of verify(): logs[i..] (i is the code's 0-based index) checked
\* with the running expectedPreviousHash.
RECURSIVE VerifyLoop(_, _, _)
VerifyLoop(logs, i, expectedPreviousHash) ==
  IF i >= Len(logs) THEN <<>>
  ELSE CheckEntry(i, logs[i + 1], expectedPreviousHash)
       \o VerifyLoop(logs, i + 1, logs[i + 1].hash)

\* AuditLogger.verify
verify ==
  IF Len(ReadLogs) = 0 THEN [valid |-> TRUE, errors |-> <<>>]
  ELSE LET errors == VerifyLoop(ReadLogs, 0, GenesisHash)
       IN [valid |-> Len(errors) = 0, errors |-> errors]

\* new Date(timestamp): the instant an ISO-8601 string denotes, in clock
\* ticks.
DateOf(timestamp) ==
  CASE timestamp = "T0" -> 0
    [] timestamp = "T1" -> 1
    [] timestamp = "T2" -> 2

\* A criterion the conditions of query() treat as given: a truthy value.
Truthy(v) == v \notin {Undefined, ""}

\* Mutant of Matches: the time bounds are exclusive.
MatchesExclusive(entry, criteria) ==
  /\ ~(Truthy(criteria.userId) /\ entry.event.userId # criteria.userId)
  /\ ~(Truthy(criteria.eventType) /\ entry.event.eventType # criteria.eventType)
  /\ ~(Truthy(criteria.outcome) /\ entry.event.outcome # criteria.outcome)
  /\ ~(criteria.startTime # Undefined
        /\ DateOf(entry.event.timestamp) <= DateOf(criteria.startTime))
  /\ ~(criteria.endTime # Undefined
        /\ DateOf(entry.event.timestamp) >= DateOf(criteria.endTime))

\* The filter callback of query(): the entry is kept.
Matches(entry, criteria) ==
  /\ ~(Truthy(criteria.userId) /\ entry.event.userId # criteria.userId)
  /\ ~(Truthy(criteria.eventType) /\ entry.event.eventType # criteria.eventType)
  /\ ~(Truthy(criteria.outcome) /\ entry.event.outcome # criteria.outcome)
  /\ ~(criteria.startTime # Undefined
        /\ DateOf(entry.event.timestamp) < DateOf(criteria.startTime))
  /\ ~(criteria.endTime # Undefined
        /\ DateOf(entry.event.timestamp) > DateOf(criteria.endTime))

\* AuditLogger.query, when no line makes JSON.parse throw.
query(criteria) ==
  IF Len(ReadLogs) = 0 THEN <<>>
  ELSE SelectSeq(ReadLogs, LAMBDA entry : Matches(entry, criteria))

\* value || ''
OrEmpty(value) == IF Truthy(value) THEN value ELSE ""

\* The header line of the CSV export, split at the commas.
CsvHeader ==
  <<"Timestamp", "Event Type", "User ID", "Resource", "Action", "Outcome",
    "Hash">>

\* Mutant of CsvRow: resource and action exchanged.
CsvRowSwapped(entry) ==
  <<entry.event.timestamp, entry.event.eventType, entry.event.userId,
    OrEmpty(entry.event.action), OrEmpty(entry.event.resource),
    entry.event.outcome, entry.hash>>

\* One data row of the CSV export, split at the commas.
CsvRow(entry) ==
  <<entry.event.timestamp, entry.event.eventType, entry.event.userId,
    OrEmpty(entry.event.resource), OrEmpty(entry.event.action),
    entry.event.outcome, entry.hash>>

\* Mutant of exportLogs: the JSON document lists the newest entry first.
exportLogsNewestFirst(format) ==
  IF Len(ReadLogs) = 0 THEN <<>>
  ELSE IF format = "json"
    THEN [i \in 1 .. Len(ReadLogs) |->
            StringifyEntry(ReadLogs[Len(ReadLogs) + 1 - i])]
  ELSE <<CsvHeader>> \o [i \in 1 .. Len(ReadLogs) |-> CsvRow(ReadLogs[i])]

\* AuditLogger.exportLogs, when no line makes JSON.parse throw. The JSON
\* document ('[]' for a store without entries) is the array it encodes,
\* JSON.stringify of the decoded entries; the CSV document is its sequence
\* of lines, none for the empty string.
exportLogs(format) ==
  IF Len(ReadLogs) = 0 THEN <<>>
  ELSE IF format = "json"
    THEN [i \in 1 .. Len(ReadLogs) |-> StringifyEntry(ReadLogs[i])]
  ELSE <<CsvHeader>> \o [i \in 1 .. Len(ReadLogs) |-> CsvRow(ReadLogs[i])]

\* Mutant of BuildEntry: previousHash is always the genesis hash.
BuildEntryGenesis(event, genId, now) ==
  LET filled == [event EXCEPT
                   !.id = IF @ = "" THEN genId ELSE @,
                   !.timestamp = IF @ = "" THEN now ELSE @]
      unsigned == [event |-> filled, previousHash |-> GenesisHash]
      hash == hashEntry(unsigned)
  IN [event |-> filled, previousHash |-> GenesisHash,
      hash |-> hash, signature |-> signEntry(hash)]

\* The entry log() builds before it touches the file: id and timestamp
\* filled when falsy, previousHash from lastHash, then hash and signature.
BuildEntry(event, genId, now) ==
  LET filled == [event EXCEPT
                   !.id = IF @ = "" THEN genId ELSE @,
                   !.timestamp = IF @ = "" THEN now ELSE @]
      unsigned == [event |-> filled, previousHash |-> lastHash]
      hash == hashEntry(unsigned)
  IN [event |-> filled, previousHash |-> lastHash,
      hash |-> hash, signature |-> signEntry(hash)]

(* ------------------------------ actions -------------------------------- *)
NoTamper == [kind |-> "none", pos |-> 0, pos2 |-> 0, size |-> 0]

\* Tasks of the process that call log() on the one logger.
Tasks == {"task-1", "task-2"}

\* A task that is not inside log().
Idle == [pc |-> "idle"]

\* The path of the first logger's file and a second path.
LogPath == "audit.log"

OtherPath == "tenant-b.log"

\* No second AuditLogger has been constructed.
Unbuilt == [logPath |-> "none"]

\* A path without a file.
NoFile == [exists |-> FALSE, lines |-> <<>>]

\* The constructor over a store that is absent or an empty file.
Init ==
  /\ logExists \in BOOLEAN
  /\ logFile = <<>>
  /\ signingKey = "key-A"
  /\ lastHash = getLastHash
  /\ result = [op |-> "new", threw |-> FALSE]
  /\ failures = 0
  /\ tamper = NoTamper
  /\ calls = [t \in Tasks |-> Idle]
  /\ other = Unbuilt
  /\ otherFile = NoFile

\* Mutant of log: the file is written, not appended to.
logOverwrite(event, genId, now) ==
  /\ Len(logFile) < MaxLog
  /\ LET entry == BuildEntry(event, genId, now)
     IN /\ lastHash' = entry.hash
        /\ logFile' = <<StringifyEntry(entry)>>
        /\ logExists' = TRUE
        /\ result' = [op |-> "log", threw |-> FALSE, entry |-> entry]
  /\ UNCHANGED <<signingKey, failures, tamper, calls, other, otherFile>>

\* AuditLogger.log when appendFileSync succeeds.
log(event, genId, now) ==
  /\ Len(logFile) < MaxLog
  /\ LET entry == BuildEntry(event, genId, now)
     IN /\ lastHash' = entry.hash
        /\ logFile' = Append(logFile, StringifyEntry(entry))
        /\ logExists' = TRUE
        /\ result' = [op |-> "log", threw |-> FALSE, entry |-> entry]
  /\ UNCHANGED <<signingKey, failures, tamper, calls, other, otherFile>>

\* AuditLogger.log when appendFileSync throws (an I/O error): the statements
\* before the append have run, the exception reaches the caller.
logAppendThrows(event, genId, now) ==
  /\ failures < MaxFail
  /\ LET entry == BuildEntry(event, genId, now)
     IN lastHash' = entry.hash
  /\ result' = [op |-> "log", threw |-> TRUE]
  /\ failures' = failures + 1
  /\ UNCHANGED <<logExists, logFile, signingKey, tamper, calls,
                 other, otherFile>>

\* Mutant of verifyCall: verify() re-reads the chain tip from the file.
verifyCallResync ==
  /\ result' = IF ParseThrows THEN [op |-> "verify", threw |-> TRUE]
               ELSE [op |-> "verify", threw |-> FALSE, value |-> verify]
  /\ lastHash' = IF ParseThrows THEN lastHash ELSE getLastHash
  /\ UNCHANGED <<logExists, logFile, signingKey, failures, tamper, calls,
                 other, otherFile>>

\* AuditLogger.verify called by the owner of the log.
verifyCall ==
  /\ result' = IF ParseThrows THEN [op |-> "verify", threw |-> TRUE]
               ELSE [op |-> "verify", threw |-> FALSE, value |-> verify]
  /\ UNCHANGED <<logExists, logFile, signingKey, lastHash, failures, tamper, calls,
                 other, otherFile>>

LogStep == \E event \in InputEvents, genId \in GenIds, now \in Clock :
             log(event, genId, now)

Next == LogStep \/ verifyCall

\* Successful log() calls and verify() on an initially absent file.
Spec == Init /\ [][Next]_vars

LogThrowsStep == \E event \in InputEvents, genId \in GenIds, now \in Clock :
                   logAppendThrows(event, genId, now)

NextIO == LogStep \/ LogThrowsStep \/ verifyCall

\* The same with store appends that may fail.
SpecIO == Init /\ [][NextIO]_vars

(* ---------------- edits of the file by another party ------------------- *)
\* JSON events that differ from the stored event e in one member.
EditedEvents(e) ==
  {[e EXCEPT !.outcome = o] : o \in Outcomes \ {e.outcome}}
  \cup {[e EXCEPT !.userId = "mallory"]}
  \cup (IF e.metadata.defined THEN {[e EXCEPT !.metadata.cost = "0"]} ELSE {})

\* The sequence s without its element at index i (1-based).
RemoveAt(s, i) == SubSeq(s, 1, i - 1) \o SubSeq(s, i + 1, Len(s))

\* Line k (0-based) gets another event; nothing else of the file changes.
TamperEvent(k, e) ==
  /\ tamper.kind = "none" /\ failures = 0
  /\ k < Len(logFile)
  /\ e \in EditedEvents(logFile[k + 1].event)
  /\ logFile' = [logFile EXCEPT ![k + 1].event = e]
  /\ tamper' = [kind |-> "edit", pos |-> k, pos2 |-> k, size |-> Len(logFile)]
  /\ UNCHANGED <<logExists, signingKey, lastHash, result, failures, calls,
                 other, otherFile>>

\* Line k (0-based) is removed from the file.
TamperDelete(k) ==
  /\ tamper.kind = "none" /\ failures = 0
  /\ k < Len(logFile)
  /\ logFile' = RemoveAt(logFile, k + 1)
  /\ tamper' = [kind |-> "delete", pos |-> k, pos2 |-> k, size |-> Len(logFile)]
  /\ UNCHANGED <<logExists, signingKey, lastHash, result, failures, calls,
                 other, otherFile>>

\* Lines i and j (0-based, i < j) exchange their places.
TamperSwap(i, j) ==
  /\ tamper.kind = "none" /\ failures = 0
  /\ i < j /\ j < Len(logFile)
  /\ logFile' = [logFile EXCEPT ![i + 1] = logFile[j + 1],
                                ![j + 1] = logFile[i + 1]]
  /\ tamper' = [kind |-> "swap", pos |-> i, pos2 |-> j, size |-> Len(logFile)]
  /\ UNCHANGED <<logExists, signingKey, lastHash, result, failures, calls,
                 other, otherFile>>

\* Line k (0-based) gets a signature of its stored hash under another key.
TamperSignature(k, key) ==
  /\ tamper.kind = "none" /\ failures = 0
  /\ k < Len(logFile)
  /\ key # signingKey
  /\ logFile' = [logFile EXCEPT
                   ![k + 1].signature = createHmac(key, logFile[k + 1].hash)]
  /\ tamper' = [kind |-> "forge", pos |-> k, pos2 |-> k, size |-> Len(logFile)]
  /\ UNCHANGED <<logExists, signingKey, lastHash, result, failures, calls,
                 other, otherFile>>

\* 0-based indices of the lines of the file.
Positions == 0 .. (Len(logFile) - 1)

EditStep == \E k \in {p \in Positions : Decodable(logFile[p + 1])} :
              \E e \in EditedEvents(logFile[k + 1].event) : TamperEvent(k, e)

DeleteStep == \E k \in Positions : TamperDelete(k)

SwapStep == \E i \in Positions, j \in Positions : TamperSwap(i, j)

ForgeStep == \E k \in Positions, key \in Keys : TamperSignature(k, key)

NextTamper ==
  LogStep \/ verifyCall \/ EditStep \/ DeleteStep \/ SwapStep \/ ForgeStep

\* Successful log() calls, verify(), and one edit of the file from outside.
SpecTamper == Init /\ [][NextTamper]_vars

(* ------------------------- the other operations ----------------------- *)
\* Criteria callers pass to query(); Undefined is a member left out.
Criteria ==
  [userId : {Undefined, "user-002", ""},
   eventType : {Undefined, "user.login"},
   outcome : {Undefined, "success"},
   startTime : {Undefined, "T1"},
   endTime : {Undefined, "T0", "T1"}]

\* The formats of exportLogs.
Formats == {"json", "csv"}

\* AuditLogger.query called by the owner of the log.
queryCall(criteria) ==
  /\ result' = IF ParseThrows THEN [op |-> "query", threw |-> TRUE]
               ELSE [op |-> "query", threw |-> FALSE, criteria |-> criteria,
                     value |-> query(criteria)]
  /\ UNCHANGED <<logExists, logFile, signingKey, lastHash, failures, tamper,
                 calls, other, otherFile>>

\* AuditLogger.exportLogs called by the owner of the log.
exportCall(format) ==
  /\ result' = IF ParseThrows THEN [op |-> "export", threw |-> TRUE]
               ELSE [op |-> "export", threw |-> FALSE, format |-> format,
                     value |-> exportLogs(format)]
  /\ UNCHANGED <<logExists, logFile, signingKey, lastHash, failures, tamper,
                 calls, other, otherFile>>

\* The process ends and a new AuditLogger is constructed over the same file
\* with the same signing key; getLastHash decodes the last line only.
restart ==
  /\ IF Len(ReadLogs) = 0 THEN TRUE ELSE Decodable(logFile[Len(logFile)])
  /\ lastHash' = getLastHash
  /\ result' = [op |-> "new", threw |-> FALSE]
  /\ calls' = [t \in Tasks |-> Idle]
  /\ UNCHANGED <<logExists, logFile, signingKey, failures, tamper,
                 other, otherFile>>

QueryStep == \E criteria \in Criteria : queryCall(criteria)

ExportStep == \E format \in Formats : exportCall(format)

\* log() with one outcome of the id generator and of the clock.
LogFixedStep == \E event \in InputEvents : log(event, "audit_1", "T1")

NextOps == LogFixedStep \/ verifyCall \/ QueryStep \/ ExportStep \/ restart

\* Successful log() calls, the three readers and restarts of the process.
SpecOps == Init /\ [][NextOps]_vars

\* Line k (0-based) is overwritten with text that is not JSON.
TamperGarbage(k) ==
  /\ tamper.kind = "none" /\ failures = 0
  /\ k < Len(logFile)
  /\ logFile' = [logFile EXCEPT ![k + 1] = Garbage]
  /\ tamper' = [kind |-> "garbage", pos |-> k, pos2 |-> k, size |-> Len(logFile)]
  /\ UNCHANGED <<logExists, signingKey, lastHash, result, failures, calls,
                 other, otherFile>>

GarbageStep == \E k \in Positions : TamperGarbage(k)

\* query() without criteria and with one criterion.
QueryFewStep ==
  \E criteria \in {c \in Criteria :
                     /\ c.userId = Undefined /\ c.eventType = Undefined
                     /\ c.startTime = Undefined /\ c.endTime = Undefined} :
     queryCall(criteria)

NextReaders ==
  \/ LogFixedStep \/ verifyCall \/ QueryFewStep \/ ExportStep
  \/ EditStep \/ DeleteStep \/ ForgeStep \/ GarbageStep

\* The readers over a store that is empty, valid, tampered or undecodable.
SpecReaders == Init /\ [][NextReaders]_vars

\* The chain of the lines from index i (1-based) on, recomputed over the
\* stored events: previousHash and hash of each line are set anew, the
\* signature is kept.
RECURSIVE Rechain(_, _, _)
Rechain(logs, i, previousHash) ==
  IF i > Len(logs) THEN logs
  ELSE LET hash == hashEntry([event |-> logs[i].event,
                              previousHash |-> previousHash])
       IN Rechain([logs EXCEPT ![i].previousHash = previousHash,
                               ![i].hash = hash],
                  i + 1, hash)

\* Line k (0-based) gets another event, and the hashes of line k and of
\* the lines after it are recomputed by someone who cannot sign.
TamperRewrite(k, e) ==
  /\ tamper.kind = "none" /\ failures = 0
  /\ k < Len(logFile)
  /\ e \in EditedEvents(logFile[k + 1].event)
  /\ logFile' = Rechain([logFile EXCEPT ![k + 1].event = e], k + 1,
                        logFile[k + 1].previousHash)
  /\ tamper' = [kind |-> "rewrite", pos |-> k, pos2 |-> k,
                size |-> Len(logFile)]
  /\ UNCHANGED <<logExists, signingKey, lastHash, result, failures, calls,
                 other, otherFile>>

\* Hashes someone can write into a stored hash field: the digest of other
\* data, the genesis hash, the hash of another line.
ForgedHashes ==
  {createHash(<<"forged">>), GenesisHash}
  \cup {logFile[i].hash : i \in 1 .. Len(logFile)}

\* The stored hash field of line k (0-based) gets another value; nothing
\* else of the file changes.
TamperHash(k, h) ==
  /\ tamper.kind = "none" /\ failures = 0
  /\ k < Len(logFile)
  /\ h # logFile[k + 1].hash
  /\ logFile' = [logFile EXCEPT ![k + 1].hash = h]
  /\ tamper' = [kind |-> "hash", pos |-> k, pos2 |-> k, size |-> Len(logFile)]
  /\ UNCHANGED <<logExists, signingKey, lastHash, result, failures, calls,
                 other, otherFile>>

RewriteStep ==
  \E k \in Positions : \E e \in EditedEvents(logFile[k + 1].event) :
     TamperRewrite(k, e)

HashStep == \E k \in Positions, h \in ForgedHashes : TamperHash(k, h)

NextForge == LogFixedStep \/ verifyCall \/ RewriteStep \/ HashStep

\* verify() over logs that were valid before a rewrite of the chain or an
\* edit of a stored hash.
SpecForge == Init /\ [][NextForge]_vars

NextVerify ==
  \/ LogFixedStep \/ verifyCall
  \/ EditStep \/ DeleteStep \/ SwapStep \/ ForgeStep

\* verify() over logs that were valid before one edit from outside.
SpecVerify == Init /\ [][NextVerify]_vars

(* ----------------------- the key of a new logger ----------------------- *)
\* Outcomes of randomBytes(32) in generateSigningKey.
RandomKeys == {"key-R1", "key-R2"}

\* signingKey || process.env.AUDIT_SIGNING_KEY || this.generateSigningKey(),
\* where random is the outcome of generateSigningKey.
ChooseKey(argKey, envKey, random) ==
  IF Truthy(argKey) THEN argKey
  ELSE IF Truthy(envKey) THEN envKey
  ELSE random

\* The process ends and a new AuditLogger is constructed over the same file,
\* with or without a key argument and a key in the environment.
construct(argKey, envKey, random) ==
  /\ IF Len(ReadLogs) = 0 THEN TRUE ELSE Decodable(logFile[Len(logFile)])
  /\ signingKey' = ChooseKey(argKey, envKey, random)
  /\ lastHash' = getLastHash
  /\ result' = [op |-> "new", threw |-> FALSE,
                keyArg |-> argKey, keyEnv |-> envKey]
  /\ calls' = [t \in Tasks |-> Idle]
  /\ UNCHANGED <<logExists, logFile, failures, tamper, other, otherFile>>

ConstructStep ==
  \E argKey \in {Undefined, "key-A"}, envKey \in {Undefined, "key-B"},
     random \in RandomKeys :
     construct(argKey, envKey, random)

NextKeys == LogFixedStep \/ verifyCall \/ ConstructStep

\* Successful log() calls and verify() across restarts that may change the
\* signing key.
SpecKeys == Init /\ [][NextKeys]_vars

(* ------------------- log() called by several tasks -------------------- *)
\* Mutant of CanRun: a task is scheduled while another is inside log().
CanRunPreemptive(t) == TRUE

\* log() is a synchronous method (appendFileSync, no await): the event
\* loop runs a task only while no other task is inside log().
CanRun(t) == \A u \in Tasks \ {t} : calls[u].pc = "idle"

\* Task t enters log(): the entry is built from the current lastHash.
LogBegin(t, event, genId, now) ==
  /\ calls[t].pc = "idle" /\ CanRun(t)
  /\ Len(logFile) < MaxLog
  /\ calls' = [calls EXCEPT
                 ![t] = [pc |-> "update", entry |-> BuildEntry(event, genId, now)]]
  /\ UNCHANGED <<logExists, logFile, signingKey, lastHash, result, failures,
                 tamper, other, otherFile>>

\* this.lastHash = entry.hash
LogUpdate(t) ==
  /\ calls[t].pc = "update" /\ CanRun(t)
  /\ lastHash' = calls[t].entry.hash
  /\ calls' = [calls EXCEPT ![t].pc = "append"]
  /\ UNCHANGED <<logExists, logFile, signingKey, result, failures, tamper,
                 other, otherFile>>

\* appendFileSync succeeds and log() returns the entry.
LogAppend(t) ==
  /\ calls[t].pc = "append" /\ CanRun(t)
  /\ logFile' = Append(logFile, StringifyEntry(calls[t].entry))
  /\ logExists' = TRUE
  /\ result' = [op |-> "log", threw |-> FALSE, entry |-> calls[t].entry]
  /\ calls' = [calls EXCEPT ![t] = Idle]
  /\ UNCHANGED <<signingKey, lastHash, failures, tamper, other, otherFile>>

LogBeginStep ==
  \E t \in Tasks, event \in InputEvents, genId \in GenIds, now \in Clock :
     LogBegin(t, event, genId, now)

LogUpdateStep == \E t \in Tasks : LogUpdate(t)

LogAppendStep == \E t \in Tasks : LogAppend(t)

NextTasks == LogBeginStep \/ LogUpdateStep \/ LogAppendStep

\* Tasks of one process calling log() on one logger.
SpecTasks == Init /\ [][NextTasks]_vars

(* ------------------------- events out of the types --------------------- *)
\* The values of the enum AuditEventType.
AuditEventType ==
  {"user.login", "user.logout", "api_key.created", "api_key.revoked",
   "llm.request", "llm.response", "tool.execution", "mcp_server.call",
   "data.read", "data.write", "data.delete",
   "security.scan", "security.violation", "access.denied",
   "config.change", "user.created", "user.deleted",
   "permission.granted", "permission.revoked",
   "budget.alert", "cost.threshold_exceeded"}

\* Events whose eventType or outcome is outside the declared types, as an
\* untyped caller can pass them.
MalformedEvents ==
  { [id |-> "evt-9", timestamp |-> "T0", eventType |-> "bogus.event",
     userId |-> "user-001", resource |-> Undefined,
     action |-> Undefined, outcome |-> "success",
     metadata |-> [defined |-> FALSE, cost |-> Undefined]],
    [id |-> "", timestamp |-> "", eventType |-> "user.login",
     userId |-> "user-002", resource |-> Undefined,
     action |-> Undefined, outcome |-> "maybe",
     metadata |-> [defined |-> FALSE, cost |-> Undefined]] }

\* The event conforms to the declared types of eventType and outcome.
WellFormed(event) ==
  event.eventType \in AuditEventType /\ event.outcome \in Outcomes

LogMalformedStep ==
  \E event \in MalformedEvents, genId \in GenIds, now \in Clock :
     log(event, genId, now)

NextUntyped == LogStep \/ LogMalformedStep \/ verifyCall

\* log() called with well-formed and with malformed events.
SpecUntyped == Init /\ [][NextUntyped]_vars

(* ---------------------- a second logger instance ----------------------- *)
\* The file at a path: its existence and its lines.
FileAt(path) ==
  IF path = LogPath THEN [exists |-> logExists, lines |-> logFile]
  ELSE otherFile

\* The lines a logger reads from the file at its logPath.
ReadLogsOf(this) ==
  IF FileAt(this.logPath).exists THEN FileAt(this.logPath).lines ELSE <<>>

\* Mutant of LastLineThrows: the constructor decodes every line.
LastLineThrowsAny(path) ==
  /\ FileAt(path).exists
  /\ \E i \in 1 .. Len(FileAt(path).lines) : ~Decodable(FileAt(path).lines[i])

\* JSON.parse(lastLog) in getLastHash throws a SyntaxError: the file at the
\* path has lines and the last one is not JSON text.
LastLineThrows(path) ==
  /\ FileAt(path).exists
  /\ Len(FileAt(path).lines) > 0
  /\ ~Decodable(FileAt(path).lines[Len(FileAt(path).lines)])

\* AuditLogger.getLastHash of a logger over the file at the path.
getLastHashAt(path) ==
  IF ~FileAt(path).exists \/ Len(FileAt(path).lines) = 0 THEN GenesisHash
  ELSE FileAt(path).lines[Len(FileAt(path).lines)].hash

\* The entry log() builds on the logger this.
BuildEntryOf(this, event, genId, now) ==
  LET filled == [event EXCEPT
                   !.id = IF @ = "" THEN genId ELSE @,
                   !.timestamp = IF @ = "" THEN now ELSE @]
      unsigned == [event |-> filled, previousHash |-> this.lastHash]
      hash == hashEntry(unsigned)
  IN [event |-> filled, previousHash |-> this.lastHash,
      hash |-> hash, signature |-> createHmac(this.signingKey, hash)]

\* The three checks of verify() called on the logger this.
CheckEntryOf(this, i, entry, expectedPreviousHash) ==
  (IF entry.previousHash # expectedPreviousHash
     THEN <<[index |-> i, id |-> entry.event.id, kind |-> "Chain broken"]>>
     ELSE <<>>)
  \o
  (IF entry.hash # hashEntry(entry)
     THEN <<[index |-> i, id |-> entry.event.id, kind |-> "Hash mismatch"]>>
     ELSE <<>>)
  \o
  (IF entry.signature # createHmac(this.signingKey, entry.hash)
     THEN <<[index |-> i, id |-> entry.event.id, kind |-> "Signature invalid"]>>
     ELSE <<>>)

\* The loop of verify() called on the logger this.
RECURSIVE VerifyLoopOf(_, _, _, _)
VerifyLoopOf(this, logs, i, expectedPreviousHash) ==
  IF i >= Len(logs) THEN <<>>
  ELSE CheckEntryOf(this, i, logs[i + 1], expectedPreviousHash)
       \o VerifyLoopOf(this, logs, i + 1, logs[i + 1].hash)

\* Mutant of verifyOf: the stored tip is also compared with this.lastHash.
verifyOfWithTip(this) ==
  IF Len(ReadLogsOf(this)) = 0 THEN [valid |-> TRUE, errors |-> <<>>]
  ELSE LET logs == ReadLogsOf(this)
           errors == VerifyLoopOf(this, logs, 0, GenesisHash)
                     \o (IF logs[Len(logs)].hash # this.lastHash
                           THEN <<[index |-> Len(logs) - 1,
                                   id |-> logs[Len(logs)].event.id,
                                   kind |-> "Chain broken"]>>
                           ELSE <<>>)
       IN [valid |-> Len(errors) = 0, errors |-> errors]

\* AuditLogger.verify called on the logger this.
verifyOf(this) ==
  IF Len(ReadLogsOf(this)) = 0 THEN [valid |-> TRUE, errors |-> <<>>]
  ELSE LET errors == VerifyLoopOf(this, ReadLogsOf(this), 0, GenesisHash)
       IN [valid |-> Len(errors) = 0, errors |-> errors]

\* new AuditLogger(path, key) in the running process. Besides the fields
\* of the instance, other records the length of the file at construction
\* (since) and the 0-based positions of the lines the instance wrote.
constructOther(path, key) ==
  /\ other.logPath = "none"
  /\ ~LastLineThrows(path)
  /\ other' = [logPath |-> path, signingKey |-> key,
               lastHash |-> getLastHashAt(path),
               since |-> Len(FileAt(path).lines), wrote |-> {}]
  /\ result' = [op |-> "new", threw |-> FALSE, by |-> "other"]
  /\ UNCHANGED <<logExists, logFile, signingKey, lastHash, failures, tamper,
                 calls, otherFile>>

\* new AuditLogger(path, key) when getLastHash throws: the constructor does
\* not return, there is no instance.
constructOtherThrows(path) ==
  /\ other.logPath = "none"
  /\ LastLineThrows(path)
  /\ result' = [op |-> "new", threw |-> TRUE, by |-> "other"]
  /\ UNCHANGED <<logExists, logFile, signingKey, lastHash, failures, tamper,
                 calls, other, otherFile>>

\* Mutant of logOther: lastHash is one chain tip shared by all instances.
logOtherSharedTip(event, genId, now) ==
  /\ other.logPath # "none"
  /\ Len(FileAt(other.logPath).lines) < MaxLog
  /\ LET entry == BuildEntryOf(other, event, genId, now)
     IN /\ other' = [other EXCEPT
                       !.lastHash = entry.hash,
                       !.wrote = @ \cup {Len(FileAt(other.logPath).lines)}]
        /\ lastHash' = entry.hash
        /\ IF other.logPath = LogPath
             THEN /\ logFile' = Append(logFile, StringifyEntry(entry))
                  /\ logExists' = TRUE
                  /\ UNCHANGED otherFile
             ELSE /\ otherFile' =
                       [exists |-> TRUE,
                        lines |-> Append(otherFile.lines, StringifyEntry(entry))]
                  /\ UNCHANGED <<logExists, logFile>>
        /\ result' = [op |-> "log", threw |-> FALSE, entry |-> entry,
                      by |-> "other"]
  /\ UNCHANGED <<signingKey, failures, tamper, calls>>

\* AuditLogger.log called on the second instance, appendFileSync succeeds.
logOther(event, genId, now) ==
  /\ other.logPath # "none"
  /\ Len(FileAt(other.logPath).lines) < MaxLog
  /\ LET entry == BuildEntryOf(other, event, genId, now)
     IN /\ other' = [other EXCEPT
                       !.lastHash = entry.hash,
                       !.wrote = @ \cup {Len(FileAt(other.logPath).lines)}]
        /\ IF other.logPath = LogPath
             THEN /\ logFile' = Append(logFile, StringifyEntry(entry))
                  /\ logExists' = TRUE
                  /\ UNCHANGED otherFile
             ELSE /\ otherFile' =
                       [exists |-> TRUE,
                        lines |-> Append(otherFile.lines, StringifyEntry(entry))]
                  /\ UNCHANGED <<logExists, logFile>>
        /\ result' = [op |-> "log", threw |-> FALSE, entry |-> entry,
                      by |-> "other"]
  /\ UNCHANGED <<signingKey, lastHash, failures, tamper, calls>>

\* AuditLogger.verify called on the second instance.
verifyOther ==
  /\ other.logPath # "none"
  /\ result' =
       IF \E i \in 1 .. Len(ReadLogsOf(other)) : ~Decodable(ReadLogsOf(other)[i])
         THEN [op |-> "verify", threw |-> TRUE, by |-> "other"]
         ELSE [op |-> "verify", threw |-> FALSE, value |-> verifyOf(other),
               by |-> "other"]
  /\ UNCHANGED <<logExists, logFile, signingKey, lastHash, failures, tamper,
                 calls, other, otherFile>>

LogOtherStep == \E event \in InputEvents : logOther(event, "audit_1", "T1")

ConstructTenantStep == constructOther(OtherPath, "key-B")

NextTenants ==
  \/ LogFixedStep \/ verifyCall
  \/ ConstructTenantStep \/ LogOtherStep \/ verifyOther

\* Two loggers of one process, each over its own file.
SpecTenants == Init /\ [][NextTenants]_vars

ConstructSharedStep == \E key \in Keys : constructOther(LogPath, key)

NextShared ==
  \/ LogFixedStep \/ verifyCall
  \/ ConstructSharedStep \/ LogOtherStep \/ verifyOther

\* Two loggers of one process over the same file.
SpecShared == Init /\ [][NextShared]_vars

ConstructThrowsStep == constructOtherThrows(LogPath)

NextConstruct ==
  LogFixedStep \/ GarbageStep \/ ConstructSharedStep \/ ConstructThrowsStep

\* Construction of a logger over a file with an undecodable line.
SpecConstruct == Init /\ [][NextConstruct]_vars

(* ------------------------------ properties ----------------------------- *)
\* The discrepancies verify() reports for the entry at index k (0-based).
ErrorsAt(k) == SelectSeq(verify.errors, LAMBDA err : err.index = k)

\* verify() reports a discrepancy of the given kind at index k.
Reports(k, kind) ==
  \E n \in 1 .. Len(verify.errors) :
     verify.errors[n].index = k /\ verify.errors[n].kind = kind

\* C1: after successful log() calls on an initially empty store, the first
\* stored entry has previousHash = hash of 'GENESIS' and every later entry
\* has previousHash = the stored hash of the entry before it.
C1_ChainContinuity ==
  \A i \in 1 .. Len(logFile) :
     logFile[i].previousHash =
       IF i = 1 THEN createHash(<<"GENESIS">>) ELSE logFile[i - 1].hash

C1_Witness == Len(logFile) >= 2 /\ result.op = "log" /\ ~result.threw

\* C2: when the append inside log() fails, the call fails and lastHash after
\* the call equals lastHash before it.
C2_FailedAppendKeepsLastHash ==
  [][(result'.op = "log" /\ result'.threw) => lastHash' = lastHash]_vars

\* C3: with failing and succeeding appends mixed, the stored sequence still
\* satisfies chain continuity and verify() returns valid:true.
C3_ContinuitySurvivesFailures ==
  /\ \A i \in 2 .. Len(logFile) : logFile[i].previousHash = logFile[i - 1].hash
  /\ (Len(logFile) >= 1 => logFile[1].previousHash = GenesisHash)
  /\ verify.valid

\* C4: in a valid log of N >= 2 entries, changing entries[k].event and
\* nothing else makes verify() return valid:false with a hash mismatch
\* reported for position k.
C4_EventEditDetected ==
  (tamper.kind = "edit" /\ tamper.size >= 2) =>
     ~verify.valid /\ Reports(tamper.pos, "Hash mismatch")

C4_Witness ==
  /\ tamper.kind = "edit" /\ tamper.size >= 2
  /\ result.op = "verify" /\ ~result.value.valid
  /\ result.value = verify

\* C5 as stated: changing entries[k].event (k < N-1) without recomputing the
\* stored hash also yields a chain break at position k+1.
C5_EditBreaksChainAtNext ==
  (tamper.kind = "edit" /\ tamper.size >= 2 /\ tamper.pos < tamper.size - 1) =>
     Reports(tamper.pos, "Hash mismatch") /\ Reports(tamper.pos + 1, "Chain broken")

\* C5 amended: changing entries[k].event (k < N-1) without recomputing the
\* stored hash yields the hash mismatch at k and no chain break at k+1: the
\* chain check compares with the stored hash, which was not changed.
C5_EditLeavesChainIntact ==
  (tamper.kind = "edit" /\ tamper.size >= 2 /\ tamper.pos < tamper.size - 1) =>
     Reports(tamper.pos, "Hash mismatch") /\ ~Reports(tamper.pos + 1, "Chain broken")

C5_Witness ==
  /\ tamper.kind = "edit" /\ tamper.size >= 2 /\ tamper.pos < tamper.size - 1
  /\ result.op = "verify" /\ result.value = verify
  /\ Len(result.value.errors) = 1

\* C6: in a valid log of N >= 2 entries, removing any single stored entry
\* (first, middle or last) makes verify() return valid:false.
C6_DeletionDetected ==
  (tamper.kind = "delete" /\ tamper.size >= 2) => ~verify.valid

\* C7: in a valid log of N >= 2 entries, exchanging the positions of two
\* distinct entries makes verify() return valid:false with at least one
\* chain break.
C7_ReorderDetected ==
  (tamper.kind = "swap" /\ tamper.size >= 2) =>
     /\ ~verify.valid
     /\ \E n \in 1 .. Len(verify.errors) : verify.errors[n].kind = "Chain broken"

C7_Witness ==
  /\ tamper.kind = "swap" /\ tamper.size >= 3 /\ tamper.pos2 = tamper.pos + 1
  /\ result.op = "verify" /\ ~result.value.valid
  /\ result.value = verify

\* C8: after any sequence of successful log() calls on an initially empty
\* store, verify() with the same signing key returns valid:true and an
\* empty error list.
C8_NoFalsePositives == verify.valid /\ verify.errors = <<>>

C8_Witness ==
  /\ Len(logFile) >= 2
  /\ result.op = "verify" /\ result.value.valid /\ result.value.errors = <<>>

\* C9: an entry with correct previousHash and hash whose signature was made
\* under another key gets exactly one discrepancy, a signature mismatch,
\* and no chain break or hash mismatch.
C9_ForgedSignatureOnly ==
  tamper.kind = "forge" =>
     /\ Len(ErrorsAt(tamper.pos)) = 1
     /\ ErrorsAt(tamper.pos)[1].kind = "Signature invalid"

C9_Witness ==
  /\ tamper.kind = "forge" /\ tamper.size >= 2
  /\ result.op = "verify" /\ ~result.value.valid
  /\ result.value = verify

\* C10: every entry log() returns and persists has hash = SHA-256 of its
\* event (id and timestamp filled) with its previousHash, and signature =
\* HMAC of that hash under the logger's key.
C10_HashAndSignatureComputed ==
  /\ \A i \in 1 .. Len(logFile) :
        /\ logFile[i].hash =
             createHash(<<logFile[i].event, logFile[i].previousHash>>)
        /\ logFile[i].signature = createHmac(signingKey, logFile[i].hash)
        /\ logFile[i].event.id # "" /\ logFile[i].event.timestamp # ""
  /\ (result.op = "log" /\ ~result.threw) =>
        /\ result.entry.event.id # "" /\ result.entry.event.timestamp # ""
        /\ result.entry.hash =
             createHash(<<StringifyEvent(result.entry.event),
                          result.entry.previousHash>>)
        /\ result.entry.signature = createHmac(signingKey, result.entry.hash)
        /\ logFile[Len(logFile)] = StringifyEntry(result.entry)

C10_Witness ==
  /\ result.op = "log" /\ ~result.threw
  /\ result.entry.event.metadata.cost = "NaN"
  /\ result.entry.event.id = "evt-1"
  /\ Len(logFile) >= 2

\* C11: every successful log() keeps the stored sequence as a prefix and
\* adds exactly one entry at its end; log, verify, query and exportLogs
\* never rewrite, reorder or remove a stored entry.
C11_AppendOnly ==
  [][/\ Len(logFile') >= Len(logFile)
     /\ SubSeq(logFile', 1, Len(logFile)) = logFile
     /\ (logExists => logExists')
     /\ (result'.op = "log" /\ result' # result) =>
           /\ Len(logFile') = Len(logFile) + 1
           /\ logFile'[Len(logFile')] = StringifyEntry(result'.entry)
     /\ result'.op # "log" => logFile' = logFile]_vars

C11_Witness ==
  /\ Len(logFile) >= 2
  /\ result.op = "log" /\ ~result.threw
  /\ logFile[Len(logFile)] = StringifyEntry(result.entry)

\* C12: verify(), query() and exportLogs() leave the stored sequence and
\* lastHash unchanged, whether the store is valid, tampered or empty.
C12_ReadersReadOnly ==
  [][(tamper' = tamper /\ result'.op \in {"verify", "query", "export"}) =>
        /\ logFile' = logFile /\ logExists' = logExists
        /\ lastHash' = lastHash]_vars

C12_Witness ==
  /\ tamper.kind = "delete" /\ tamper.pos = tamper.size - 1
  /\ result.op = "export" /\ ~result.threw
  /\ lastHash # getLastHash

\* C13: with log() called by several tasks of one process in any
\* interleaving, the steps of one call are never interleaved with those of
\* another: no two stored entries share a previousHash and the store
\* satisfies chain continuity.
C13_WritersSerialized ==
  /\ \A t \in Tasks, u \in Tasks :
        (t # u /\ calls[t].pc # "idle") => calls[u].pc = "idle"
  /\ \A i \in 1 .. Len(logFile), j \in 1 .. Len(logFile) :
        i # j => logFile[i].previousHash # logFile[j].previousHash
  /\ \A i \in 1 .. Len(logFile) :
        logFile[i].previousHash =
          IF i = 1 THEN GenesisHash ELSE logFile[i - 1].hash

C13_Witness ==
  /\ Len(logFile) >= 2
  /\ calls["task-2"].pc = "append"
  /\ calls["task-2"].entry.previousHash = logFile[Len(logFile)].hash

\* C14: a new AuditLogger starts with lastHash = the stored hash of the last
\* persisted entry, or the genesis hash when the store is absent or empty;
\* the chain stays continuous and verify() valid across restarts
\* interleaved with successful log() calls.
C14_RestartContinuity ==
  /\ result.op = "new" =>
        lastHash = IF ~logExists \/ Len(logFile) = 0
                     THEN createHash(<<"GENESIS">>)
                     ELSE logFile[Len(logFile)].hash
  /\ \A i \in 1 .. Len(logFile) :
        logFile[i].previousHash =
          IF i > 1 THEN logFile[i - 1].hash ELSE createHash(<<"GENESIS">>)
  /\ verify.valid

C14_Witness ==
  /\ result.op = "new" /\ Len(logFile) >= 2
  /\ lastHash = logFile[Len(logFile)].hash

\* C15: log() with a malformed event (eventType or outcome outside the
\* enumeration) fails before anything is hashed or written: no malformed
\* event is ever returned or stored.
C15_MalformedRejected ==
  /\ \A i \in 1 .. Len(logFile) : WellFormed(logFile[i].event)
  /\ (result.op = "log" /\ ~result.threw) => WellFormed(result.entry.event)

\* C16: with an undecodable record at position i, verify() does not throw,
\* reports a discrepancy for position i and returns valid:false.
C16_UndecodableReported ==
  tamper.kind = "garbage" =>
     /\ ~ParseThrows
     /\ result.op = "verify" => ~result.threw
     /\ ~verify.valid
     /\ Len(ErrorsAt(tamper.pos)) >= 1

\* The rank of a discrepancy kind in the order verify() makes its checks.
KindRank(kind) ==
  CASE kind = "Chain broken" -> 1
    [] kind = "Hash mismatch" -> 2
    [] kind = "Signature invalid" -> 3

\* C17: verify() checks every stored entry in storage order against the
\* stored hash of its predecessor and does not stop at the first
\* discrepancy: it reports exactly the failed checks (chain, hash,
\* signature) of every position, ordered by position, and valid is true
\* iff the list is empty.
C17_ReportsEveryBreak ==
  LET errors == verify.errors IN
  /\ \A i \in 1 .. Len(logFile) :
        /\ Reports(i - 1, "Chain broken") <=>
             logFile[i].previousHash #
               (IF i = 1 THEN GenesisHash ELSE logFile[i - 1].hash)
        /\ Reports(i - 1, "Hash mismatch") <=>
             logFile[i].hash #
               createHash(<<logFile[i].event, logFile[i].previousHash>>)
        /\ Reports(i - 1, "Signature invalid") <=>
             logFile[i].signature # createHmac(signingKey, logFile[i].hash)
  /\ \A m \in 1 .. Len(errors), n \in 1 .. Len(errors) :
        m < n =>
          \/ errors[m].index < errors[n].index
          \/ /\ errors[m].index = errors[n].index
             /\ KindRank(errors[m].kind) < KindRank(errors[n].kind)
  /\ \A n \in 1 .. Len(errors) :
        /\ errors[n].index \in 0 .. Len(logFile) - 1
        /\ errors[n].id = logFile[errors[n].index + 1].event.id
  /\ verify.valid <=> (errors = <<>>)

C17_Witness ==
  /\ tamper.kind = "swap" /\ tamper.size >= 3
  /\ result.op = "verify" /\ result.value = verify
  /\ Len(result.value.errors) >= 3
  /\ result.value.errors[1].index # result.value.errors[3].index

\* C18: verify() on a store that is absent or holds no entries returns
\* valid:true with an empty error list and does not throw.
C18_EmptyLogValid ==
  Len(ReadLogs) = 0 =>
     /\ ~ParseThrows
     /\ verify = [valid |-> TRUE, errors |-> <<>>]
     /\ result.op = "verify" =>
           /\ ~result.threw
           /\ result.value.valid /\ result.value.errors = <<>>

C18_Witness ==
  /\ logExists /\ Len(logFile) = 0
  /\ result.op = "verify" /\ ~result.threw /\ result.value.valid

\* The entry satisfies every criterion given with a non-empty value: exact
\* match of user, event type and outcome, startTime <= timestamp <= endTime.
Satisfies(entry, criteria) ==
  /\ criteria.userId \notin {Undefined, ""} =>
        entry.event.userId = criteria.userId
  /\ criteria.eventType \notin {Undefined, ""} =>
        entry.event.eventType = criteria.eventType
  /\ criteria.outcome \notin {Undefined, ""} =>
        entry.event.outcome = criteria.outcome
  /\ criteria.startTime # Undefined =>
        DateOf(criteria.startTime) <= DateOf(entry.event.timestamp)
  /\ criteria.endTime # Undefined =>
        DateOf(entry.event.timestamp) <= DateOf(criteria.endTime)

C22_EmptyExportWellFormed ==
  (result.op = "export" /\ Len(ReadLogs) = 0) =>
     /\ ~result.threw
     /\ result.format = "json" => result.value = <<>>
     /\ result.format = "csv" =>
           result.value = <<<<"Timestamp", "Event Type", "User ID", "Resource",
                              "Action", "Outcome", "Hash">>>>

\* C23: log() keeps a caller-supplied id and timestamp and fills only
\* absent ones, and the event ids of all stored entries are pairwise
\* distinct after any sequence of log() calls.
C23_IdsKeptAndDistinct ==
  [][/\ (result'.op = "log" /\ logFile' # logFile) =>
           \E event \in InputEvents, genId \in GenIds, now \in Clock :
              result'.entry.event =
                [event EXCEPT
                   !.id = IF event.id = "" THEN genId ELSE event.id,
                   !.timestamp =
                     IF event.timestamp = "" THEN now ELSE event.timestamp]
     /\ \A i \in 1 .. Len(logFile'), j \in 1 .. Len(logFile') :
           i # j => logFile'[i].event.id # logFile'[j].event.id]_vars

\* C24: a logger constructed without a key (no argument, none in the
\* environment) holds a randomly generated key; a logger whose key differs
\* from the key that signed a stored entry reports for that entry exactly a
\* signature mismatch, no chain break and no hash mismatch, and returns
\* valid:false; entries signed with its own key get no discrepancy.
C24_ForeignKeySignatureOnly ==
  /\ ("keyArg" \in DOMAIN result /\ result.keyArg = Undefined
        /\ result.keyEnv = Undefined) => signingKey \in RandomKeys
  /\ \A i \in 1 .. Len(logFile) :
        IF logFile[i].signature[2] # signingKey
          THEN /\ ErrorsAt(i - 1) =
                    <<[index |-> i - 1, id |-> logFile[i].event.id,
                       kind |-> "Signature invalid"]>>
               /\ ~verify.valid
          ELSE ErrorsAt(i - 1) = <<>>

C24_Witness ==
  /\ Len(logFile) = 3
  /\ logFile[1].signature[2] = "key-R1" /\ logFile[2].signature[2] = "key-R1"
  /\ logFile[3].signature[2] = "key-R2"
  /\ signingKey = "key-R2"
  /\ result.op = "verify" /\ result.value = verify
  /\ Len(result.value.errors) = 2

\* C25: with two loggers over different files, an operation on one instance
\* leaves the lastHash and the file of the other unchanged, and each file
\* satisfies chain continuity from the genesis hash.
C25_InstancesIndependent ==
  [][/\ "by" \notin DOMAIN result' =>
           other' = other /\ otherFile' = otherFile
     /\ "by" \in DOMAIN result' =>
           /\ lastHash' = lastHash
           /\ logFile' = logFile /\ logExists' = logExists
     /\ \A i \in 1 .. Len(logFile') :
           logFile'[i].previousHash =
             IF i = 1 THEN createHash(<<"GENESIS">>) ELSE logFile'[i - 1].hash
     /\ \A i \in 1 .. Len(otherFile'.lines) :
           otherFile'.lines[i].previousHash =
             IF i = 1 THEN createHash(<<"GENESIS">>)
             ELSE otherFile'.lines[i - 1].hash]_vars

C25_Witness ==
  /\ other.logPath = "tenant-b.log"
  /\ Len(logFile) = 2 /\ Len(otherFile.lines) = 3
  /\ lastHash = logFile[2].hash /\ other.lastHash = otherFile.lines[3].hash
  /\ lastHash # other.lastHash
  /\ result.op = "log" /\ "by" \in DOMAIN result

\* The instance that wrote line p (0-based) of the shared file.
Writer(p) == IF p \in other.wrote THEN "other" ELSE "first"

\* The lastHash the writer of line p held when it wrote the line: the hash
\* of its own latest line since the second instance was constructed, or
\* the tip of the file at that construction.
OwnTip(p) ==
  LET mine == {q \in other.since .. p - 1 : Writer(q) = Writer(p)}
  IN IF mine # {}
       THEN logFile[(CHOOSE q \in mine : \A r \in mine : r <= q) + 1].hash
       ELSE IF other.since = 0 THEN GenesisHash
       ELSE logFile[other.since].hash

\* C26: with two loggers over the same file logging in any interleaving,
\* every entry chains to its writer's own previous entry (or to the tip of
\* the file at construction), and verify() reports a chain break at each
\* position where the writer changes.
C26_ChainBreakAtWriterChange ==
  other.logPath = LogPath =>
     /\ \A p \in other.since .. Len(logFile) - 1 :
           logFile[p + 1].previousHash = OwnTip(p)
     /\ \A p \in other.since + 1 .. Len(logFile) - 1 :
           Writer(p) # Writer(p - 1) => Reports(p, "Chain broken")

\* C27: after an attacker without the key changed entries[k].event and
\* recomputed hash and previousHash of entry k and of every later entry,
\* leaving the signatures as stored, verify() reports no chain break and no
\* hash mismatch, and a signature mismatch at every position from k to the
\* end.
C27_RewriteCaughtBySignatures ==
  (tamper.kind = "rewrite" /\ Len(logFile) = tamper.size) =>
     /\ ~verify.valid
     /\ \A p \in 0 .. tamper.size - 1 :
           ErrorsAt(p) =
             IF p < tamper.pos THEN <<>>
             ELSE <<[index |-> p, id |-> logFile[p + 1].event.id,
                     kind |-> "Signature invalid"]>>
     /\ Len(verify.errors) = tamper.size - tamper.pos

C27_Witness ==
  /\ tamper.kind = "rewrite" /\ tamper.size = 3 /\ tamper.pos = 1
  /\ Len(logFile) = 3
  /\ result.op = "verify" /\ result.value = verify
  /\ Len(result.value.errors) = 2

\* C28: editing only the stored hash field of entry k of a valid log gives
\* exactly, in this order, a hash mismatch at k, a signature mismatch at k
\* and, when k is not the last entry, a chain break at k+1.
C28_HashFieldEdit ==
  (tamper.kind = "hash" /\ Len(logFile) = tamper.size) =>
     LET k == tamper.pos
         atK == <<[index |-> k, id |-> logFile[k + 1].event.id,
                   kind |-> "Hash mismatch"],
                  [index |-> k, id |-> logFile[k + 1].event.id,
                   kind |-> "Signature invalid"]>>
     IN verify.errors =
          IF k < tamper.size - 1
            THEN atK \o <<[index |-> k + 1, id |-> logFile[k + 2].event.id,
                           kind |-> "Chain broken"]>>
            ELSE atK

C28_Witness ==
  /\ tamper.kind = "hash" /\ tamper.size = 3 /\ tamper.pos = 1
  /\ Len(logFile) = 3
  /\ result.op = "verify" /\ result.value = verify
  /\ Len(result.value.errors) = 3
  /\ result.value.errors[3].index = 2

\* The signing key of the instance whose call gave the result r.
KeyOf(r) == IF "by" \in DOMAIN r THEN other.signingKey ELSE signingKey

C30_ConstructorDecodesLastLineOnly ==
  [][(/\ other.logPath = "none"
      /\ result'.op = "new" /\ "by" \in DOMAIN result'
      /\ tamper' = tamper) =>
        /\ logFile' = logFile /\ logExists' = logExists
        /\ otherFile' = otherFile /\ lastHash' = lastHash
        /\ IF Len(ReadLogs) > 0 /\ ~Decodable(logFile[Len(logFile)])
             THEN result'.threw /\ other' = other
             ELSE /\ ~result'.threw
                  /\ other'.logPath = "audit.log"
                  /\ other'.lastHash =
                       IF Len(ReadLogs) = 0 THEN createHash(<<"GENESIS">>)
                       ELSE logFile[Len(logFile)].hash]_vars

C30_Witness ==
  /\ tamper.kind = "garbage" /\ Len(logFile) >= 2
  /\ ~Decodable(logFile[Len(logFile)])
  /\ result.op = "new" /\ result.threw
  /\ other.logPath = "none"

====
